---- MODULE Spec2Model ----
(***************************************************************************)
(* Family Tax Benefit calculators of voltronforce/FTB.                     *)
(*                                                                         *)
(* src/app.py holds several Streamlit programs one after the other:        *)
(*   "rates"  lines    1- 731  FTBRates / FTBCalculator (per-child Part A) *)
(*   "v1"     lines  732-1219  RATES / Family, find_ftb_a_cutoff in stages *)
(*   "v2"     lines 1220-2138  same engines, 365/14 cut-off calculator     *)
(*   "v3"     lines 2139-2947  same engines, closed-form cut-offs          *)
(*   "v4"     lines 2948-3138  partnered / single Part B (file cut short)  *)
(* src/ftb_calculator_web.py is the program "web".                         *)
(*                                                                         *)
(* Arithmetic.  The programs compute in binary floating point; the model   *)
(* computes the same expressions exactly, in integers:                     *)
(*   - rates of the rate tables and every rounded money result: cents;     *)
(*   - thresholds of the rate tables: whole dollars, as in the source;     *)
(*   - incomes: cents;                                                     *)
(*   - taper rates: per cent (0.20 is 20);                                 *)
(*   - an unrounded fortnightly amount: PfUnit-ths of a cent, PfUnit being *)
(*     26 * 100, so that (income - threshold) * taper / 26 is the integer  *)
(*     (income in cents - threshold in cents) * (taper in per cent).       *)
(* round(x, 2) and round(x) are Python's round-half-to-even.               *)
(***************************************************************************)
EXTENDS Integers, Sequences, FiniteSets, TLC

\* ------------------------------------------------------------------------
\* Arithmetic helpers
\* ------------------------------------------------------------------------
PfUnit == 26 * 100

Max(a, b) == IF a >= b THEN a ELSE b

Min(a, b) == IF a <= b THEN a ELSE b

\* Python's round(): n / d to the nearest integer, ties to the even one.
RoundHalfEven(n, d) ==
  LET q == n \div d
      rem == n % d
  IN  IF 2 * rem < d THEN q
      ELSE IF 2 * rem > d THEN q + 1
      ELSE IF q % 2 = 0 THEN q ELSE q + 1

\* round(pf, 2): an unrounded fortnightly amount to cents.
round2(pf) == RoundHalfEven(pf, PfUnit)

\* cents of a rate-table figure as an unrounded fortnightly amount
Pf(cents) == cents * PfUnit

\* dollars of a threshold as cents
Cents(dollars) == dollars * 100

\* ------------------------------------------------------------------------
\* Programs v1..v4: rate table, data model, helper utilities
\* ------------------------------------------------------------------------
\* RATES (2024-25), the module-level table the engines read.
RATES ==
  [ ftb_a |->
      [ max_pf  |-> ("0_12" :> 22204 @@ "13_15" :> 28882 @@ "16_19" :> 28882),
        base_pf |-> ("0_12" :> 7126 @@ "13_plus" :> 7126),
        supplement |-> 91615,
        lower_ifa |-> 65189,
        higher_ifa |-> 115997,
        taper1 |-> 20,
        taper2 |-> 30,
        supplement_income_limit |-> 80000 ],
    ftb_b |->
      [ max_pf    |-> ("under_5" :> 18886 @@ "5_to_18" :> 13174),
        energy_pf |-> ("under_5" :> 280 @@ "5_to_18" :> 196),
        supplement |-> 44895,
        secondary_free_area |-> 6789,
        nil_secondary |-> ("under_5" :> 33653 @@ "5_to_12" :> 26207),
        primary_limit |-> 117194,
        taper |-> 20 ],
    compliance_penalty_pf |-> 3444 ]

\* The engines read the table through the global name RATES only; they are
\* written here with the table as the parameter r, so that a statement
\* about every rate table can be checked on more than one table.
child_max_rate_pf(r, c) ==
  IF c.age <= 12 THEN r.ftb_a.max_pf["0_12"]
  ELSE IF c.age <= 15 THEN r.ftb_a.max_pf["13_15"]
  ELSE r.ftb_a.max_pf["16_19"]

child_base_rate_pf(r, c) ==
  IF c.age <= 12 THEN r.ftb_a.base_pf["0_12"] ELSE r.ftb_a.base_pf["13_plus"]

child_penalties_pf(r, c) ==
  (IF ~c.immunised THEN r.compliance_penalty_pf ELSE 0)
  + (IF 4 <= c.age /\ c.age <= 5 /\ ~c.healthy_start
       THEN r.compliance_penalty_pf ELSE 0)

\* pf_to_annual of v1, v3 and v4: round(pf * 26, 2), in cents
\* (pf * 26 / PfUnit, written without the product, which 32 bits cannot hold).
pf_to_annual(pf) == RoundHalfEven(pf, PfUnit \div 26)

\* pf_to_annual as v2 rebinds it before any call (app.py:1647-1651):
\* pf * 365 / 14, not rounded.  The value is w + f / AnnDen cents.
AnnDen == 14 * PfUnit

pf_to_annual_v2(pf) ==
  LET m == (pf % AnnDen) * 365
  IN  [w |-> (pf \div AnnDen) * 365 + m \div AnnDen, f |-> m % AnnDen]

\* round(w + f / AnnDen), in cents
round_annual(w, f) ==
  IF 2 * f < AnnDen THEN w
  ELSE IF 2 * f > AnnDen THEN w + 1
  ELSE IF w % 2 = 0 THEN w ELSE w + 1

\* ------------------------------------------------------------------------
\* calc_ftb_part_a
\* ------------------------------------------------------------------------
\* One pass of the loop over fam.children: the child's contribution to
\* total_max_pf and to total_base_pf (cents).
child_max_contribution(r, ch) ==
  LET max_pf  == child_max_rate_pf(r, ch)
      base_pf == child_base_rate_pf(r, ch)
      capped  == IF ~ch.maintenance_ok THEN Min(max_pf, base_pf) ELSE max_pf
  IN  Max(capped - child_penalties_pf(r, ch), 0)

child_base_contribution(r, ch) ==
  Max(child_base_rate_pf(r, ch) - child_penalties_pf(r, ch), 0)

RECURSIVE total_max_pf(_, _)
total_max_pf(r, children) ==
  IF children = <<>> THEN 0
  ELSE child_max_contribution(r, Head(children)) + total_max_pf(r, Tail(children))

\* total_base_pf with the base rates before the penalties.
RECURSIVE total_base_pf_no_penalties(_, _)
total_base_pf_no_penalties(r, children) ==
  IF children = <<>> THEN 0
  ELSE child_base_rate_pf(r, Head(children))
       + total_base_pf_no_penalties(r, Tail(children))

RECURSIVE total_base_pf(_, _)
total_base_pf(r, children) ==
  IF children = <<>> THEN 0
  ELSE child_base_contribution(r, Head(children)) + total_base_pf(r, Tail(children))

\* base_total_pf with the penalties dropped from Method 2's sum.
base_total_pf_penalties_dropped(r, children) ==
  total_base_pf_no_penalties(r, children)

\* Method 2's own sum: sum(max(child_base_rate_pf(ch) - child_penalties_pf(ch), 0)).
RECURSIVE base_total_pf(_, _)
base_total_pf(r, children) ==
  IF children = <<>> THEN 0
  ELSE Max(child_base_rate_pf(r, Head(children))
             - child_penalties_pf(r, Head(children)), 0)
       + base_total_pf(r, Tail(children))

ati(fam) == fam.primary_income + fam.secondary_income

\* m1_pf with the first taper added to the maximum total.
m1_pf_taper_added(r, fam) ==
  LET a == r.ftb_a
      inc == ati(fam)
  IN  IF fam.on_income_support \/ inc <= Cents(a.lower_ifa)
        THEN Pf(total_max_pf(r, fam.children))
      ELSE IF inc <= Cents(a.higher_ifa)
        THEN Max(Pf(total_max_pf(r, fam.children))
                   + (inc - Cents(a.lower_ifa)) * a.taper1,
                 Pf(total_base_pf(r, fam.children)))
      ELSE Max(Pf(total_base_pf(r, fam.children))
                 - (inc - Cents(a.higher_ifa)) * a.taper2, 0)

\* m1_pf, unrounded (PfUnit-ths of a cent).
m1_pf(r, fam) ==
  LET a == r.ftb_a
      inc == ati(fam)
  IN  IF fam.on_income_support \/ inc <= Cents(a.lower_ifa)
        THEN Pf(total_max_pf(r, fam.children))
      ELSE IF inc <= Cents(a.higher_ifa)
        THEN Max(Pf(total_max_pf(r, fam.children))
                   - (inc - Cents(a.lower_ifa)) * a.taper1,
                 Pf(total_base_pf(r, fam.children)))
      ELSE Max(Pf(total_base_pf(r, fam.children))
                 - (inc - Cents(a.higher_ifa)) * a.taper2, 0)

\* m2_pf without the income test above the higher threshold.
m2_pf_no_taper(r, fam) == Pf(base_total_pf(r, fam.children))

\* m2_pf, unrounded.
m2_pf(r, fam) ==
  LET a == r.ftb_a
      inc == ati(fam)
  IN  IF fam.on_income_support \/ inc <= Cents(a.higher_ifa)
        THEN Pf(base_total_pf(r, fam.children))
      ELSE Max(Pf(base_total_pf(r, fam.children))
                 - (inc - Cents(a.higher_ifa)) * a.taper2, 0)

\* best_pf without the comparison: Method 1 alone.
best_pf_method1_only(r, fam) == m1_pf(r, fam)

\* best_pf = max(m1_pf, m2_pf)
best_pf(r, fam) == Max(m1_pf(r, fam), m2_pf(r, fam))

\* calc_ftb_part_a without the supplement.
calc_ftb_part_a_no_supplement(r, fam) ==
  LET best == best_pf(r, fam)
      annual_core == pf_to_annual(best)
  IN  [pf |-> round2(best), annual |-> annual_core, supp |-> 0,
       annual_total |-> annual_core]

calc_ftb_part_a(r, fam) ==
  LET best == best_pf(r, fam)
      annual_core == pf_to_annual(best)
      supp == IF best > 0 /\ (fam.on_income_support
                              \/ ati(fam) <= Cents(r.ftb_a.supplement_income_limit))
                THEN r.ftb_a.supplement ELSE 0
  IN  [pf |-> round2(best), annual |-> annual_core, supp |-> supp,
       annual_total |-> annual_core + supp]

\* The same function in v2, where pf_to_annual is the 365/14 one.
calc_ftb_part_a_v2(r, fam) ==
  LET best == best_pf(r, fam)
      annual_core == pf_to_annual_v2(best)
      supp == IF best > 0 /\ (fam.on_income_support
                              \/ ati(fam) <= Cents(r.ftb_a.supplement_income_limit))
                THEN r.ftb_a.supplement ELSE 0
  IN  [pf |-> round2(best), annual |-> annual_core, supp |-> supp,
       annual_total |-> round_annual(annual_core.w + supp, annual_core.f)]

\* ------------------------------------------------------------------------
\* calc_ftb_part_b
\* ------------------------------------------------------------------------
RECURSIVE min_age(_)
min_age(children) ==
  IF Len(children) = 1 THEN Head(children).age
  ELSE Min(Head(children).age, min_age(Tail(children)))

ZeroB == [pf |-> 0, annual |-> 0, supp |-> 0, energy |-> 0, annual_total |-> 0]

\* The result dict both versions build from base_pf (unrounded) and energy_pf.
part_b_result(r, base_pf, energy_pf, include_es) ==
  LET annual_core == pf_to_annual(base_pf)
      energy_annual == IF include_es /\ base_pf > 0
                         THEN pf_to_annual(Pf(energy_pf)) ELSE 0
      supp == IF base_pf > 0 THEN r.ftb_b.supplement ELSE 0
  IN  [pf |-> round2(base_pf), annual |-> annual_core, supp |-> supp,
       energy |-> energy_annual,
       annual_total |-> annual_core + supp + energy_annual]

\* calc_ftb_part_b, the secondary and the primary income test (app.py:927-938):
\* base_pf without the floor max(.., 0).
part_b_base_pf_no_floor(r, fam) ==
  LET b == r.ftb_b
      youngest == min_age(fam.children)
      std_pf == IF youngest < 5 THEN b.max_pf["under_5"] ELSE b.max_pf["5_to_18"]
      sec_red == IF fam.secondary_income <= Cents(b.secondary_free_area) THEN 0
                 ELSE (fam.secondary_income - Cents(b.secondary_free_area)) * b.taper
  IN  IF fam.primary_income > Cents(b.primary_limit) THEN 0 ELSE Pf(std_pf) - sec_red

\* base_pf, unrounded.  Neither fam.partnered nor an age limit is read.
\* The variant below adds the secondary earner's reduction.
part_b_base_pf_reduction_added(r, fam) ==
  LET b == r.ftb_b
      youngest == min_age(fam.children)
      std_pf == IF youngest < 5 THEN b.max_pf["under_5"] ELSE b.max_pf["5_to_18"]
      sec_red == IF fam.secondary_income <= Cents(b.secondary_free_area) THEN 0
                 ELSE (fam.secondary_income - Cents(b.secondary_free_area)) * b.taper
      tapered == Max(Pf(std_pf) + sec_red, 0)
  IN  IF fam.primary_income > Cents(b.primary_limit) THEN 0 ELSE tapered

part_b_base_pf(r, fam) ==
  LET b == r.ftb_b
      youngest == min_age(fam.children)
      std_pf == IF youngest < 5 THEN b.max_pf["under_5"] ELSE b.max_pf["5_to_18"]
      sec_red == IF fam.secondary_income <= Cents(b.secondary_free_area) THEN 0
                 ELSE (fam.secondary_income - Cents(b.secondary_free_area)) * b.taper
      tapered == Max(Pf(std_pf) - sec_red, 0)
  IN  IF fam.primary_income > Cents(b.primary_limit) THEN 0 ELSE tapered

part_b_energy_pf(r, fam) ==
  IF min_age(fam.children) < 5 THEN r.ftb_b.energy_pf["under_5"]
  ELSE r.ftb_b.energy_pf["5_to_18"]

\* v1, v2 (with its own pf_to_annual, below), v3.
calc_ftb_part_b(r, fam, include_es) ==
  IF fam.children = <<>> THEN ZeroB
  ELSE part_b_result(r, part_b_base_pf(r, fam), part_b_energy_pf(r, fam), include_es)

\* The same function in v2, where pf_to_annual is the 365/14 one.
calc_ftb_part_b_v2(r, fam, include_es) ==
  IF fam.children = <<>> THEN ZeroB
  ELSE
    LET base_pf == part_b_base_pf(r, fam)
        annual_core == pf_to_annual_v2(base_pf)
        energy_annual == IF include_es /\ base_pf > 0
                           THEN pf_to_annual_v2(Pf(part_b_energy_pf(r, fam)))
                         ELSE [w |-> 0, f |-> 0]
        supp == IF base_pf > 0 THEN r.ftb_b.supplement ELSE 0
    IN  [pf |-> round2(base_pf), annual |-> annual_core, supp |-> supp,
         energy |-> energy_annual,
         annual_total |->
           round_annual(annual_core.w + supp + energy_annual.w
                          + (annual_core.f + energy_annual.f) \div AnnDen,
                        (annual_core.f + energy_annual.f) % AnnDen)]

\* v4, the part of the function the file still holds (app.py:3120-3137): the
\* youngest child's band, the single-parent test, the couple's age limit and
\* the choice of the higher income as "primary".  The file ends inside the
\* test of primary against the ceiling; what follows it is couple_income_test.
\*
\* couple_income_test follows the design text of the calculator: over the
\* primary-earner ceiling the benefit is zero; otherwise the standard rate
\* less (secondary - free area) * taper / 26, floored at zero, and a rate
\* left below one cent is exactly zero.
couple_income_test(r, std_pf, primary, secondary) ==
  LET b == r.ftb_b
      sec_red == IF secondary <= Cents(b.secondary_free_area) THEN 0
                 ELSE (secondary - Cents(b.secondary_free_area)) * b.taper
      tapered == Max(Pf(std_pf) - sec_red, 0)
  IN  IF primary > Cents(b.primary_limit) THEN 0
      ELSE IF tapered < Pf(1) THEN 0
      ELSE tapered

calc_ftb_part_b_v4(r, fam, include_es) ==
  IF fam.children = <<>> THEN ZeroB
  ELSE
    LET b == r.ftb_b
        youngest == min_age(fam.children)
        std_pf == IF youngest < 5 THEN b.max_pf["under_5"] ELSE b.max_pf["5_to_18"]
        es_pf == IF youngest < 5 THEN b.energy_pf["under_5"]
                 ELSE b.energy_pf["5_to_18"]
        primary == Max(fam.primary_income, fam.secondary_income)
        secondary == Min(fam.primary_income, fam.secondary_income)
        base_pf ==
          IF ~fam.partnered
            THEN (IF fam.primary_income <= Cents(b.primary_limit)
                    THEN Pf(std_pf) ELSE 0)
          ELSE IF youngest >= 13 THEN 0
          ELSE couple_income_test(r, std_pf, primary, secondary)
    IN  part_b_result(r, base_pf, es_pf, include_es)

\* ------------------------------------------------------------------------
\* find_ftb_a_cutoff, find_ftb_b_cutoff (the income-limits tab)
\* ------------------------------------------------------------------------
\* Band rates of a list of ages, without penalties (cents).
RECURSIVE ages_max_pf(_, _)
ages_max_pf(r, ages) ==
  IF ages = <<>> THEN 0
  ELSE (IF Head(ages) <= 12 THEN r.ftb_a.max_pf["0_12"]
        ELSE IF Head(ages) <= 15 THEN r.ftb_a.max_pf["13_15"]
        ELSE r.ftb_a.max_pf["16_19"])
       + ages_max_pf(r, Tail(ages))

RECURSIVE ages_base_pf(_, _)
ages_base_pf(r, ages) ==
  IF ages = <<>> THEN 0
  ELSE (IF Head(ages) <= 12 THEN r.ftb_a.base_pf["0_12"]
        ELSE r.ftb_a.base_pf["13_plus"])
       + ages_base_pf(r, Tail(ages))

RECURSIVE min_of(_)
min_of(ages) ==
  IF Len(ages) = 1 THEN Head(ages) ELSE Min(Head(ages), min_of(Tail(ages)))

\* v1 (app.py:948).  Incomes inside are dollars times D = taper1 * taper2
\* (per cent), annual amounts are cents; zero_payment is round(zero_income).
\* The result's incomes are given in cents.
find_ftb_a_cutoff_v1(r, child_ages) ==
  LET a == r.ftb_a
      D == a.taper1 * a.taper2
      total_max == ages_max_pf(r, child_ages)
      total_base == ages_base_pf(r, child_ages)
      diff_pf == total_max - total_base
      diff_ann == diff_pf * 26
      stage1_inc_needed == diff_ann * a.taper2              \* times D
      stage1_range == (a.higher_ifa - a.lower_ifa) * D      \* times D
      stage1_inc_used == Min(stage1_inc_needed, stage1_range)
      stage1_reduction == stage1_inc_used \div a.taper2     \* cents
      pay_after_stage1 == total_max * 26 - stage1_reduction \* cents
      remaining_ann == Max(pay_after_stage1, total_base * 26) \* remaining_pf * 26
      stage2_inc_needed == remaining_ann * a.taper1         \* times D
      zero_income == a.lower_ifa * D + stage1_inc_used + stage2_inc_needed
  IN  [supplement_cutoff |-> Cents(a.supplement_income_limit),
       taper_start |-> Cents(a.higher_ifa),
       zero_payment |-> Cents(RoundHalfEven(zero_income, D))]

\* v2 (app.py:1657), with pf_to_annual redefined as pf * 365 / 14
\* (app.py:1647-1651).  X_cut_max and X_cut_base are dollars times 14 * k2.
find_ftb_a_cutoff_v2(r, child_ages) ==
  LET a == r.ftb_a
      n_0_12 == Cardinality({i \in DOMAIN child_ages : child_ages[i] <= 12})
      n_13_19 == Len(child_ages) - n_0_12
      R_max == (n_0_12 * a.max_pf["0_12"] + n_13_19 * a.max_pf["13_15"]) * 365
      R_base == (n_0_12 + n_13_19) * a.base_pf["0_12"] * 365  \* cents * 14
      k1 == a.taper1
      k2 == a.taper2
      fixed_red == k1 * (a.higher_ifa - a.lower_ifa) * 14      \* cents * 14
      X_cut_max == a.higher_ifa * 14 * k2 + (R_max - fixed_red)
      X_cut_base == a.higher_ifa * 14 * k2 + R_base
  IN  [supplement_cutoff |-> Cents(a.supplement_income_limit),
       taper_start |-> Cents(a.higher_ifa),
       zero_payment |-> Cents(RoundHalfEven(Max(X_cut_max, X_cut_base), 14 * k2))]

\* v3 (app.py:2514): higher_ifa + total_base_pf * 26 / taper2, round(.., 2).
find_ftb_a_cutoff_v3(r, child_ages) ==
  LET a == r.ftb_a
      total_base == ages_base_pf(r, child_ages)
  IN  [supplement_cutoff |-> Cents(a.supplement_income_limit),
       taper_start |-> Cents(a.higher_ifa),
       zero_payment |-> Cents(a.higher_ifa)
                          + RoundHalfEven(total_base * 26 * 100, a.taper2)]

\* v1 (app.py:978) and v2 (app.py:1702): the fixed nil_secondary lookup.
find_ftb_b_cutoff(r, child_ages) ==
  LET b == r.ftb_b
      youngest == IF child_ages # <<>> THEN min_of(child_ages) ELSE 5
      secondary_cutoff == IF youngest < 5 THEN b.nil_secondary["under_5"]
                          ELSE b.nil_secondary["5_to_12"]
  IN  [primary_limit |-> Cents(b.primary_limit),
       secondary_free_area |-> Cents(b.secondary_free_area),
       secondary_cutoff |-> Cents(secondary_cutoff)]

\* v3 (app.py:2535): secondary_free_area + max_pf * 26 / taper, round(.., 2).
find_ftb_b_cutoff_v3(r, child_ages) ==
  LET b == r.ftb_b
      youngest_age == min_of(child_ages)
      max_pf == IF youngest_age < 5 THEN b.max_pf["under_5"] ELSE b.max_pf["5_to_18"]
  IN  [primary_limit |-> Cents(b.primary_limit),
       secondary_free_area |-> Cents(b.secondary_free_area),
       secondary_cutoff |-> Cents(b.secondary_free_area)
                              + RoundHalfEven(max_pf * 26 * 100, b.taper)]

\* ------------------------------------------------------------------------
\* Program "rates": FTBRates, FTBCalculator
\* ------------------------------------------------------------------------
\* FTBRates(): the dataclass defaults.  Rates in cents, thresholds in whole
\* dollars, tapers in per cent.  The income field of this program is taken
\* in whole dollars.
FTBRates ==
  [ base_rate_under_13 |-> 6634,
    base_rate_13_over |-> 8660,
    max_rate_under_13 |-> 19796,
    max_rate_13_over |-> 25746,
    ftb_b_max_under_5 |-> 17114,
    ftb_b_max_5_over |-> 11924,
    ftb_a_higher_threshold |-> 58108,
    ftb_a_higher_taper |-> 20,
    ftb_a_base_threshold |-> 103368,
    ftb_a_base_taper |-> 30,
    ftb_b_threshold |-> 6497,
    ftb_b_taper |-> 20,
    ftb_a_supplement_rate |-> 84264,
    ftb_a_supplement_limit |-> 80000,
    ftb_b_supplement_rate |-> 42132 ]

\* FTBResult(...); the amounts are unrounded (PfUnit-ths of a cent).
FTBResult(fortnightly_rate, test_type, base_rate, compliance_reduction, maintenance_reduction, reason) ==
  [fortnightly_rate |-> fortnightly_rate, test_type |-> test_type,
   base_rate |-> base_rate, compliance_reduction |-> compliance_reduction,
   maintenance_reduction |-> maintenance_reduction, reason |-> reason]

\* FTBCalculator.calculate_ftb_part_a: one child.
calculate_ftb_part_a(rates, child, annual_income, income_support) ==
  LET max_rate == Pf(IF child.age < 13 THEN rates.max_rate_under_13
                     ELSE rates.max_rate_13_over)
      base_rate == Pf(IF child.age < 13 THEN rates.base_rate_under_13
                      ELSE rates.base_rate_13_over)
      compliance_reduction ==
        (IF ~child.immunisation THEN max_rate \div 2 ELSE 0)
        + (IF ~child.healthy_start /\ child.age >= 4 THEN max_rate \div 2 ELSE 0)
      tier ==
        IF annual_income <= rates.ftb_a_higher_threshold
          THEN [rate |-> max_rate, test_type |-> "Maximum Rate Income Test"]
        ELSE IF annual_income <= rates.ftb_a_base_threshold
          THEN [rate |-> Max(base_rate,
                             max_rate - Cents(annual_income - rates.ftb_a_higher_threshold)
                                          * rates.ftb_a_higher_taper),
                test_type |-> "Higher Income Test"]
        ELSE [rate |-> Max(0, base_rate
                                - Cents(annual_income - rates.ftb_a_base_threshold)
                                    * rates.ftb_a_base_taper),
              test_type |-> "Base Rate Income Test"]
      maintenance_reduction == IF ~child.maintenance_action THEN tier.rate ELSE 0
      rate == IF ~child.maintenance_action THEN 0 ELSE tier.rate
  IN  IF income_support
        THEN FTBResult(Max(0, max_rate - compliance_reduction),
                       "Income Support - Maximum Rate", max_rate,
                       compliance_reduction, 0, "")
      ELSE FTBResult(Max(0, rate - compliance_reduction), tier.test_type, rate,
                     compliance_reduction, maintenance_reduction, "")

\* FTBCalculator.calculate_ftb_part_b.
calculate_ftb_part_b(rates, children, family_type, annual_income) ==
  IF family_type = "couple"
    THEN FTBResult(0, "Not payable - Couple", 0, 0, 0,
                   "FTB Part B is generally not payable to couples")
  ELSE
    LET youngest_age == min_age(children)
        max_rate == Pf(IF youngest_age < 5 THEN rates.ftb_b_max_under_5
                       ELSE rates.ftb_b_max_5_over)
        final_rate == Max(0, max_rate - Cents(annual_income - rates.ftb_b_threshold)
                                          * rates.ftb_b_taper)
    IN  IF annual_income <= rates.ftb_b_threshold
          THEN FTBResult(max_rate, "Under Income Threshold", max_rate, 0, 0, "")
        ELSE FTBResult(final_rate, "Income Test Applied", max_rate, 0, 0, "")

\* FTBCalculator.calculate_work_incentive.  The cut-outs are dollars times
\* the common denominator ftb_a_base_taper * ftb_b_taper (field den); the
\* weekly figure is the annual one over 52 and is not kept apart.
calculate_work_incentive(rates, children, family_type, current_income) ==
  LET den == rates.ftb_a_base_taper * rates.ftb_b_taper
      base_rate == IF children[1].age < 13 THEN rates.base_rate_under_13
                   ELSE rates.base_rate_13_over
      ftb_a_cutout ==
        IF children # <<>>
          THEN rates.ftb_a_base_threshold * den + base_rate * 26 * rates.ftb_b_taper
        ELSE 0
      max_rate == IF min_age(children) < 5 THEN rates.ftb_b_max_under_5
                  ELSE rates.ftb_b_max_5_over
      ftb_b_cutout ==
        IF family_type = "single" /\ children # <<>>
          THEN rates.ftb_b_threshold * den + max_rate * 26 * rates.ftb_a_base_taper
        ELSE 0
      positive == {x \in {ftb_a_cutout, ftb_b_cutout} : x > 0}
      earliest_cutout ==
        IF positive # {} THEN CHOOSE x \in positive : \A y \in positive : x <= y
        ELSE 0
  IN  [ftb_a_cutout |-> ftb_a_cutout, ftb_b_cutout |-> ftb_b_cutout,
       earliest_cutout |-> earliest_cutout,
       additional_annual_income |-> Max(0, earliest_cutout - current_income * den),
       den |-> den]

\* Per-child results of the loop in calculator_page.
RECURSIVE ftb_a_results_of(_, _, _, _)
ftb_a_results_of(rates, children, annual_income, income_support) ==
  IF children = <<>> THEN <<>>
  ELSE <<calculate_ftb_part_a(rates, Head(children), annual_income, income_support)>>
       \o ftb_a_results_of(rates, Tail(children), annual_income, income_support)

RECURSIVE sum_fortnightly_rate(_)
sum_fortnightly_rate(results) ==
  IF results = <<>> THEN 0
  ELSE Head(results).fortnightly_rate + sum_fortnightly_rate(Tail(results))

\* What the "Calculate FTB" button of calculator_page stores in
\* st.session_state.calculation_results.  Fortnightly amounts are unrounded
\* (PfUnit-ths of a cent); supplements are cents; total_annual (fortnightly
\* * 26) and total_annual_with_supplements are hundredths of a cent.
calculation_results_of(rates, family_type, annual_income, income_support, children) ==
  LET ftb_a_results == ftb_a_results_of(rates, children, annual_income, income_support)
      ftb_b_result == calculate_ftb_part_b(rates, children, family_type, annual_income)
      total_ftb_a_fortnightly == sum_fortnightly_rate(ftb_a_results)
      total_ftb_b_fortnightly == ftb_b_result.fortnightly_rate
      total_fortnightly == total_ftb_a_fortnightly + total_ftb_b_fortnightly
      total_annual == total_fortnightly
      ftb_a_supplement ==
        IF total_ftb_a_fortnightly > 0 /\ annual_income <= rates.ftb_a_supplement_limit
          THEN rates.ftb_a_supplement_rate * Len(children) ELSE 0
      ftb_b_supplement ==
        IF total_ftb_b_fortnightly > 0 THEN rates.ftb_b_supplement_rate ELSE 0
  IN  [family_type |-> family_type, annual_income |-> annual_income,
       income_support |-> income_support, children |-> children,
       ftb_a_results |-> ftb_a_results, ftb_b_result |-> ftb_b_result,
       total_ftb_a_fortnightly |-> total_ftb_a_fortnightly,
       total_ftb_b_fortnightly |-> total_ftb_b_fortnightly,
       total_fortnightly |-> total_fortnightly,
       total_annual |-> total_annual,
       ftb_a_supplement |-> ftb_a_supplement,
       ftb_b_supplement |-> ftb_b_supplement,
       total_annual_with_supplements |->
         total_annual + 100 * (ftb_a_supplement + ftb_b_supplement),
       work_incentive |->
         calculate_work_incentive(rates, children, family_type, annual_income)]

\* ------------------------------------------------------------------------
\* Program "web": ftb_calculator_web.py
\* ------------------------------------------------------------------------
\* Annual amounts in cents; incomes in whole dollars (integer inputs).
FTB_A_THRESHOLD_MAX_RATE == 65189
FTB_A_THRESHOLD_TAPER_END == 115997
FTB_A_MAX_RATE_ANNUAL == 670505
FTB_A_TAPER_RATE1 == 20
FTB_A_TAPER_RATE2 == 30
FTB_A_BASE_RATE_ANNUAL == 277400
FTB_B_PARTNER_INCOME_LIMIT == 11233
FTB_B_MAX_RATE_ANNUAL == 16340 * 26
RA_THRESHOLD_FT == 19642
RA_MAX_RATE_FT == 24920
END_YEAR_SUPPLEMENT == 91615

web_amt1(income, children) ==
  IF income <= FTB_A_THRESHOLD_MAX_RATE
    THEN FTB_A_MAX_RATE_ANNUAL * children
  ELSE IF income <= FTB_A_THRESHOLD_TAPER_END
    THEN Max(0, FTB_A_MAX_RATE_ANNUAL * children
                  - (income - FTB_A_THRESHOLD_MAX_RATE) * FTB_A_TAPER_RATE1)
  ELSE Max(0, FTB_A_MAX_RATE_ANNUAL * children
                - (FTB_A_THRESHOLD_TAPER_END - FTB_A_THRESHOLD_MAX_RATE) * FTB_A_TAPER_RATE1
                - (income - FTB_A_THRESHOLD_TAPER_END) * FTB_A_TAPER_RATE2)

web_amt2(income, children) ==
  IF income <= FTB_A_THRESHOLD_TAPER_END
    THEN FTB_A_BASE_RATE_ANNUAL * children
  ELSE Max(0, FTB_A_BASE_RATE_ANNUAL * children
                - (income - FTB_A_THRESHOLD_TAPER_END) * FTB_A_TAPER_RATE2)

\* calc_ftb_part_a(income, children) of ftb_calculator_web.py
web_calc_ftb_part_a(income, children) ==
  Max(web_amt1(income, children), web_amt2(income, children))

\* One run of the script: the values it computes from the widgets.  ra,
\* ra_annual and total_payment are quarters of a cent (rent above the
\* threshold counts for 0.75), the other amounts cents.
web_run(income1, income2, rent_fortnight, child_ages) ==
  LET total_income == income1 + income2
      ftb_a == web_calc_ftb_part_a(total_income, Len(child_ages))
      is_couple == income2 > 0
      entitled_b == Len(child_ages) >= 1
                    /\ (~is_couple \/ income2 <= FTB_B_PARTNER_INCOME_LIMIT)
      ftb_b == IF entitled_b THEN FTB_B_MAX_RATE_ANNUAL ELSE 0
      ra == IF rent_fortnight > RA_THRESHOLD_FT
              THEN Min(4 * RA_MAX_RATE_FT, (rent_fortnight - RA_THRESHOLD_FT) * 3)
            ELSE 0
      ra_annual == ra * 26
      supplements == END_YEAR_SUPPLEMENT * Len(child_ages)
  IN  [total_income |-> total_income, child_ages |-> child_ages,
       rent_fortnight |-> rent_fortnight, ra_annual |-> ra_annual,
       ftb_a |-> ftb_a,
       status_a |-> IF total_income <= FTB_A_THRESHOLD_MAX_RATE THEN "Maximum"
                    ELSE IF ftb_a > 0 THEN "Reduced" ELSE "Ineligible",
       ftb_b |-> ftb_b,
       status_b |-> IF entitled_b THEN "Entitled" ELSE "None",
       supplements |-> supplements,
       total_payment |-> 4 * (ftb_a + ftb_b + supplements) + ra_annual]

\* ------------------------------------------------------------------------
\* Bounds and inputs
\* ------------------------------------------------------------------------
\* The forms allow up to 10 children; the model explores up to MaxChildren.
MaxChildren == 2

\* Child(age, immunised, healthy_start, maintenance_ok) of v1..v4
Child(age, immunised, healthy_start, maintenance_ok) ==
  [age |-> age, immunised |-> immunised, healthy_start |-> healthy_start,
   maintenance_ok |-> maintenance_ok]

\* Family(partnered, primary_income, secondary_income, children, on_income_support)
Family(partnered, primary_income, secondary_income, children, on_income_support) ==
  [partnered |-> partnered, primary_income |-> primary_income,
   secondary_income |-> secondary_income, children |-> children,
   on_income_support |-> on_income_support]

\* Child of the program "rates"
RatesChild(age, immunisation, healthy_start, maintenance_action) ==
  [age |-> age, immunisation |-> immunisation, healthy_start |-> healthy_start,
   maintenance_action |-> maintenance_action]

Bit(b) == IF b THEN 1 ELSE 0

\* The rows a session fills in, v1..v4: a child in the health-check window
\* (4, also under 5) with every combination of the three boxes; the row as
\* the form offers it (5, every box ticked) and the same row with the age 8;
\* a child at the end of the 0-12 band (12) and one at the couple's age
\* limit (13) with the boxes that matter outside the window.
ChildKinds ==
  {Child(4, i, h, m) : i \in BOOLEAN, h \in BOOLEAN, m \in BOOLEAN}
  \cup {Child(5, TRUE, TRUE, TRUE), Child(8, TRUE, TRUE, TRUE)}
  \cup {Child(12, TRUE, h, TRUE) : h \in BOOLEAN}
  \cup {Child(13, i, TRUE, TRUE) : i \in BOOLEAN}

\* The rows a session fills in, rates.
RatesChildKinds ==
  {RatesChild(4, TRUE, TRUE, TRUE), RatesChild(12, TRUE, FALSE, TRUE),
   RatesChild(12, TRUE, TRUE, FALSE), RatesChild(13, FALSE, TRUE, TRUE)}

\* Ages entered on the income-limits tab (5 and 7 are the form's defaults).
LimitAgeInputs == {4, 5, 7, 12, 13, 16}

\* Ages set on the sliders of web (5 is the default).
WebAgeInputs == {5, 13}

\* Incomes typed into the forms, whole dollars (the defaults included).
PrimaryInputs == {50000, 90000, 130000}

SecondaryInputs == {0, 30000}

RatesIncomeInputs == {50000, 90000, 110000}

WebIncome1Inputs == {0, 50000, 90000, 130000}

WebIncome2Inputs == {0, 10000, 20000}

\* Fortnightly rent, cents.
WebRentInputs == {0, 30000}

\* The forms are filled with the rows in non-decreasing key order.
ChildKey(c) ==
  c.age * 8 + 4 * Bit(c.immunised) + 2 * Bit(c.healthy_start) + Bit(c.maintenance_ok)

RatesChildKey(c) ==
  c.age * 8 + 4 * Bit(c.immunisation) + 2 * Bit(c.healthy_start)
  + Bit(c.maintenance_action)

\* Lists of length 0..n over kinds in non-decreasing key order.
RECURSIVE OrderedLists(_, _, _)
OrderedLists(kinds, key(_), n) ==
  IF n = 0 THEN {<<>>}
  ELSE LET shorter == OrderedLists(kinds, key, n - 1)
       IN  shorter \cup
           UNION {{<<k>> \o l : l \in {x \in shorter :
                                         /\ Len(x) = n - 1
                                         /\ (x = <<>> \/ key(k) <= key(x[1]))}}
                  : k \in kinds}

RatesChildrenInputs == OrderedLists(RatesChildKinds, RatesChildKey, MaxChildren)

\* ------------------------------------------------------------------------
\* State
\* ------------------------------------------------------------------------
VARIABLES
  app,        \* the program of the session: "v1", "v2", "v3", "v4", "rates", "web"
  rate_table, \* v1..v4: the module-level RATES; rates: st.session_state.rates
  tab,        \* v1..v4: the tab the session works on, "calc" or "limits"
  widgets,    \* the values the session's widgets hold
  page,       \* what the last run shows: "form", "calc", "no_children", "limits",
              \* "calc_error", and "rates" (the Rates & Thresholds page)
  family,     \* v1..v4: the Family built by the Calculate button
  ftb_a,      \* v1..v4: calc_ftb_part_a(family)
  ftb_b,      \* v1..v4: calc_ftb_part_b(family, include_es=True)
  ftb_a_lim,  \* v1..v3: find_ftb_a_cutoff({"child_ages": rev_ages})
  ftb_b_lim,  \* v1..v3: find_ftb_b_cutoff({"child_ages": rev_ages})
  calculation_results,  \* rates: st.session_state.calculation_results
  web         \* web: the values bound by the last run of the script

vars == <<app, rate_table, tab, widgets, page, family, ftb_a, ftb_b, ftb_a_lim, ftb_b_lim,
          calculation_results, web>>

\* A value that is not there (a key missing from st.session_state, a local
\* name a run did not bind).
NONE == [none |-> TRUE]

\* The widgets' defaults: calculator tab, income-limits tab, web.
calc_defaults ==
  [partnered |-> FALSE, primary_income |-> 50000, secondary_income |-> 0,
   on_income_support |-> FALSE, children |-> <<>>]

limits_defaults == [rev_ages |-> <<5, 7>>]

web_defaults == [income1 |-> 0, income2 |-> 0, rent_fortnight |-> 0, child_ages |-> <<>>]

web_of(w) == web_run(w.income1, w.income2, w.rent_fortnight, w.child_ages)

Init ==
  /\ app \in {"v1", "v2", "v3", "v4", "rates", "web"}
  /\ rate_table = CASE app = "web" -> NONE
                    [] app = "rates" -> FTBRates
                    [] OTHER -> RATES
  /\ tab \in {"calc", "limits"}
  /\ tab = "limits" => app \in {"v1", "v2", "v3"}
  /\ widgets = CASE app = "web" -> web_defaults
                 [] app = "rates" -> NONE
                 [] tab = "calc" -> calc_defaults
                 [] OTHER -> limits_defaults
  /\ page = "form"
  /\ family = NONE
  /\ ftb_a = NONE
  /\ ftb_b = NONE
  /\ ftb_a_lim = NONE
  /\ ftb_b_lim = NONE
  /\ calculation_results = NONE
  /\ web = IF app = "web" THEN web_of(web_defaults) ELSE NONE

\* v1..v4: a run of the script that no button started.  Its names are bound
\* anew, so what the last button press showed is gone.
Rerun(w) ==
  /\ widgets' = w
  /\ page' = "form"
  /\ family' = NONE
  /\ ftb_a' = NONE
  /\ ftb_b' = NONE
  /\ ftb_a_lim' = NONE
  /\ ftb_b_lim' = NONE
  /\ UNCHANGED <<app, rate_table, tab, calculation_results, web>>

OnCalcTab == app \in {"v1", "v2", "v3", "v4"} /\ tab = "calc"

OnLimitsTab == app \in {"v1", "v2", "v3"} /\ tab = "limits"

\* "Family Type"; the partner's income is asked of a couple only.
SetFamilyType ==
  /\ OnCalcTab
  /\ Rerun([widgets EXCEPT !.partnered = ~@, !.secondary_income = 0])

SetPrimaryIncome ==
  /\ OnCalcTab
  /\ \E v \in PrimaryInputs \ {widgets.primary_income} :
       Rerun([widgets EXCEPT !.primary_income = v])

SetSecondaryIncome ==
  /\ OnCalcTab
  /\ widgets.partnered
  /\ \E v \in SecondaryInputs \ {widgets.secondary_income} :
       Rerun([widgets EXCEPT !.secondary_income = v])

SetIncomeSupport ==
  /\ OnCalcTab
  /\ Rerun([widgets EXCEPT !.on_income_support = ~@])

\* render_child_input_section: one more child, its row filled in.
AddChild ==
  /\ OnCalcTab
  /\ Len(widgets.children) < MaxChildren
  /\ \E c \in ChildKinds :
       /\ widgets.children # <<>> =>
            ChildKey(widgets.children[Len(widgets.children)]) <= ChildKey(c)
       /\ Rerun([widgets EXCEPT !.children = Append(@, c)])

\* render_child_input_section: one child fewer.
RemoveChild ==
  /\ OnCalcTab
  /\ widgets.children # <<>>
  /\ Rerun([widgets EXCEPT !.children = SubSeq(@, 1, Len(@) - 1)])

\* The Family object after calc_ftb_part_a and calc_ftb_part_b ran on it:
\* neither function assigns to fam, to fam.children or to a Child.  The
\* variant below empties the list of children.
family_after_calls_children_cleared(fam) == [fam EXCEPT !.children = <<>>]

family_after_calls(fam) == fam

\* "Calculate My FTB Payments": st.error with no child, else the two
\* engines; a negative pf gives "Calculation error detected" in place of the
\* results.
Calculate ==
  /\ OnCalcTab
  /\ LET fam == Family(widgets.partnered, Cents(widgets.primary_income),
                       Cents(widgets.secondary_income), widgets.children,
                       widgets.on_income_support)
     IN  IF widgets.children = <<>>
         THEN /\ page' = "no_children"
              /\ family' = NONE
              /\ ftb_a' = NONE
              /\ ftb_b' = NONE
         ELSE /\ family' = family_after_calls(fam)
              /\ ftb_a' = IF app = "v2" THEN calc_ftb_part_a_v2(rate_table, fam)
                          ELSE calc_ftb_part_a(rate_table, fam)
              /\ ftb_b' = IF app = "v4" THEN calc_ftb_part_b_v4(rate_table, fam, TRUE)
                          ELSE IF app = "v2" THEN calc_ftb_part_b_v2(rate_table, fam, TRUE)
                          ELSE calc_ftb_part_b(rate_table, fam, TRUE)
              /\ page' = IF ftb_a'.pf < 0 \/ ftb_b'.pf < 0 THEN "calc_error" ELSE "calc"
  /\ UNCHANGED <<app, rate_table, tab, widgets, ftb_a_lim, ftb_b_lim,
                 calculation_results, web>>

\* Income-limits tab: one more child age (the tab asks for 1..10 children).
AddAge ==
  /\ OnLimitsTab
  /\ Len(widgets.rev_ages) < MaxChildren
  /\ \E a \in LimitAgeInputs :
       /\ widgets.rev_ages[Len(widgets.rev_ages)] <= a
       /\ Rerun([widgets EXCEPT !.rev_ages = Append(@, a)])

RemoveAge ==
  /\ OnLimitsTab
  /\ Len(widgets.rev_ages) > 1
  /\ Rerun([widgets EXCEPT !.rev_ages = SubSeq(@, 1, Len(@) - 1)])

\* Income-limits tab: the age of the only child of the form.
SetAge ==
  /\ OnLimitsTab
  /\ Len(widgets.rev_ages) = 1
  /\ \E a \in LimitAgeInputs \ {widgets.rev_ages[1]} :
       Rerun([widgets EXCEPT !.rev_ages = <<a>>])

\* "Calculate Income Thresholds"
CalculateThresholds ==
  /\ OnLimitsTab
  /\ LET ages == widgets.rev_ages
     IN  /\ ftb_a_lim' = CASE app = "v1" -> find_ftb_a_cutoff_v1(rate_table, ages)
                           [] app = "v2" -> find_ftb_a_cutoff_v2(rate_table, ages)
                           [] app = "v3" -> find_ftb_a_cutoff_v3(rate_table, ages)
         /\ ftb_b_lim' = IF app = "v3" THEN find_ftb_b_cutoff_v3(rate_table, ages)
                         ELSE find_ftb_b_cutoff(rate_table, ages)
  /\ page' = "limits"
  /\ UNCHANGED <<app, rate_table, tab, widgets, family, ftb_a, ftb_b,
                 calculation_results, web>>

\* rates, "Calculate FTB" of calculator_page: with no child st.error and the
\* stored results stay; otherwise the results are stored in the session.
RatesCalculate ==
  /\ app = "rates"
  /\ \E family_type \in {"couple", "single"}, annual_income \in RatesIncomeInputs,
        income_support \in BOOLEAN, children \in RatesChildrenInputs :
       calculation_results' =
         IF children = <<>> THEN calculation_results
         ELSE calculation_results_of(rate_table, family_type, annual_income,
                                     income_support, children)
  /\ page' = "calc"
  /\ UNCHANGED <<app, rate_table, tab, widgets, family, ftb_a, ftb_b, ftb_a_lim,
                 ftb_b_lim, web>>

\* The figure typed into "FTB Part A Supplement" of the Rates & Thresholds
\* page, cents (the default included).
RateEditInputs == {84264, 90000}

\* rates, rates_page after one of its inputs was edited: the page assigns
\* every field of st.session_state.rates from its widget, so the edited
\* figure is in the table; the stored results are not touched.
RatesEditRate ==
  /\ app = "rates"
  /\ \E v \in RateEditInputs \ {rate_table.ftb_a_supplement_rate} :
       rate_table' = [rate_table EXCEPT !.ftb_a_supplement_rate = v]
  /\ page' = "rates"
  /\ UNCHANGED <<app, tab, widgets, family, ftb_a, ftb_b, ftb_a_lim, ftb_b_lim,
                 calculation_results, web>>

\* rates, "Reset to Default Rates": st.session_state.rates = FTBRates().
RatesReset ==
  /\ app = "rates"
  /\ rate_table' = FTBRates
  /\ page' = "rates"
  /\ UNCHANGED <<app, tab, widgets, family, ftb_a, ftb_b, ftb_a_lim, ftb_b_lim,
                 calculation_results, web>>

\* web: a widget changes and the script runs on the new values.
WebRerun(w) ==
  /\ widgets' = w
  /\ web' = web_of(w)
  /\ UNCHANGED <<app, rate_table, tab, page, family, ftb_a, ftb_b, ftb_a_lim,
                 ftb_b_lim, calculation_results>>

WebSetIncome1 ==
  /\ app = "web"
  /\ \E v \in WebIncome1Inputs \ {widgets.income1} :
       WebRerun([widgets EXCEPT !.income1 = v])

WebSetIncome2 ==
  /\ app = "web"
  /\ \E v \in WebIncome2Inputs \ {widgets.income2} :
       WebRerun([widgets EXCEPT !.income2 = v])

WebSetRent ==
  /\ app = "web"
  /\ \E v \in WebRentInputs \ {widgets.rent_fortnight} :
       WebRerun([widgets EXCEPT !.rent_fortnight = v])

\* "Number of children": a new slider stands at 5.
WebSetNumChildren ==
  /\ app = "web"
  /\ \/ /\ Len(widgets.child_ages) < MaxChildren
        /\ WebRerun([widgets EXCEPT !.child_ages = Append(@, 5)])
     \/ /\ widgets.child_ages # <<>>
        /\ WebRerun([widgets EXCEPT !.child_ages = SubSeq(@, 1, Len(@) - 1)])

\* "Age of Child i"
WebSetChildAge ==
  /\ app = "web"
  /\ \E i \in DOMAIN widgets.child_ages :
       \E a \in WebAgeInputs \ {widgets.child_ages[i]} :
         WebRerun([widgets EXCEPT !.child_ages[i] = a])

Next ==
  \/ SetFamilyType
  \/ SetPrimaryIncome
  \/ SetSecondaryIncome
  \/ SetIncomeSupport
  \/ AddChild
  \/ RemoveChild
  \/ Calculate
  \/ AddAge
  \/ RemoveAge
  \/ SetAge
  \/ CalculateThresholds
  \/ RatesCalculate
  \/ RatesEditRate
  \/ RatesReset
  \/ WebSetIncome1
  \/ WebSetIncome2
  \/ WebSetRent
  \/ WebSetNumChildren
  \/ WebSetChildAge

Spec == Init /\ [][Next]_vars

\* ------------------------------------------------------------------------
\* Rate tables and incomes the statements are checked on
\* ------------------------------------------------------------------------
\* A second valid rate table (rates >= 0, higher threshold >= lower, tapers
\* in [0,1]): the maximum rate of the 0-12 band lies below the base rate, so
\* that Method 2 can pay more than Method 1; other thresholds and tapers.
AltRates ==
  [RATES EXCEPT
     !.ftb_a.max_pf = ("0_12" :> 6000 @@ "13_15" :> 28882 @@ "16_19" :> 28882),
     !.ftb_a.lower_ifa = 60000,
     !.ftb_a.higher_ifa = 100000,
     !.ftb_a.taper1 = 25,
     !.ftb_a.taper2 = 40,
     !.ftb_a.supplement_income_limit = 70000]

RateTables == {RATES, AltRates}

\* Primary incomes (whole dollars, ascending) around the thresholds of both
\* tables, and the same in cents.
IncomeSeq == <<0, 65190, 100001, 115998, 122173, 200000>>

IncomeGrid == {Cents(IncomeSeq[k]) : k \in DOMAIN IncomeSeq}

\* The household of the state with another primary income.
WithPrimary(fam, inc) == [fam EXCEPT !.primary_income = inc]

Dss == {"v1", "v2", "v3", "v4"}

\* ------------------------------------------------------------------------
\* C1
\* ------------------------------------------------------------------------
\* C1: the fortnightly rate calc_ftb_part_a returns is the maximum of the
\* Method 1 result and the Method 2 result (both to the cent), hence never
\* less than either: for the household the Calculate button was pressed on,
\* under the table RATES (the rate shown) and under both rate tables.
\* calc_ftb_part_a of web returns max(amt1, amt2) alike.
C1_MaxOfMethods ==
  /\ (app \in Dss /\ page = "calc") =>
       /\ ftb_a.pf = Max(round2(m1_pf(RATES, family)), round2(m2_pf(RATES, family)))
       /\ \A r \in RateTables :
            LET pf == calc_ftb_part_a(r, family).pf
                m1 == round2(m1_pf(r, family))
                m2 == round2(m2_pf(r, family))
            IN  pf = Max(m1, m2) /\ pf >= m1 /\ pf >= m2
  /\ app = "web" =>
       LET n == Len(web.child_ages)
       IN  /\ web.ftb_a = Max(web_amt1(web.total_income, n), web_amt2(web.total_income, n))
           /\ web.ftb_a >= web_amt1(web.total_income, n)
           /\ web.ftb_a >= web_amt2(web.total_income, n)

\* C1 witness: results are shown for a household on which Method 1 pays
\* strictly more under RATES and Method 2 strictly more under AltRates.
C1_Witness ==
  /\ app \in Dss
  /\ page = "calc"
  /\ m1_pf(RATES, family) > m2_pf(RATES, family)
  /\ m2_pf(AltRates, family) > m1_pf(AltRates, family)
  /\ ftb_a.pf = round2(m1_pf(RATES, family))
  /\ calc_ftb_part_a(AltRates, family).pf = round2(m2_pf(AltRates, family))

\* ------------------------------------------------------------------------
\* C2
\* ------------------------------------------------------------------------
\* Whole-dollar incomes of the program "rates" around its thresholds.
RatesIncomeSeq == <<0, 58109, 80001, 103369, 106000, 150000>>

\* Total incomes of web around its thresholds.
WebIncomeSeq == <<0, 65190, 100000, 115998, 125000, 160000>>

\* Total Part A rate of the program "rates" for a list of children.
RatesTotalA(children, annual_income, income_support) ==
  sum_fortnightly_rate(ftb_a_results_of(FTBRates, children, annual_income,
                                        income_support))

\* f does not increase along the ascending sequence grid, and its value v0
\* at x0 lies between the values at the grid points around x0.
NonIncreasing(f(_), grid, x0, v0) ==
  LET v == <<>> \o [k \in DOMAIN grid |-> f(grid[k])]
  IN  /\ \A k \in 1..(Len(grid) - 1) : v[k + 1] <= v[k]
      /\ \A k \in DOMAIN grid : /\ (grid[k] >= x0 => v[k] <= v0)
                                 /\ (grid[k] <= x0 => v[k] >= v0)

\* C2: with the children, their compliance flags and the income-support flag
\* held fixed, the Benefit A fortnightly rate never increases when family
\* income increases: calc_ftb_part_a over the incomes of the grid and the
\* income of the state (both rate tables); the sum of
\* FTBCalculator.calculate_ftb_part_a over the children; calc_ftb_part_a of
\* web (annual amount).
C2_PartAMonotone ==
  /\ (app \in Dss /\ page = "calc") =>
       /\ ftb_a.pf = calc_ftb_part_a(RATES, family).pf
       /\ \A r \in RateTables :
            LET pf(d) == calc_ftb_part_a(r, WithPrimary(family, Cents(d))).pf
            IN  NonIncreasing(pf, IncomeSeq, family.primary_income \div 100,
                              calc_ftb_part_a(r, family).pf)
  /\ (app = "rates" /\ calculation_results # NONE) =>
       LET res == calculation_results
           rate(inc) == RatesTotalA(res.children, inc, res.income_support)
       IN  NonIncreasing(rate, RatesIncomeSeq, res.annual_income,
                         res.total_ftb_a_fortnightly)
  /\ app = "web" =>
       LET amt(inc) == web_calc_ftb_part_a(inc, Len(web.child_ages))
       IN  NonIncreasing(amt, WebIncomeSeq, web.total_income, web.ftb_a)

\* C2 witness: results are shown for a household not on income support
\* whose rate is positive and strictly lower at a higher income of the grid.
C2_Witness ==
  /\ app \in Dss
  /\ page = "calc"
  /\ ~family.on_income_support
  /\ ftb_a.pf > 0
  /\ \E inc \in IncomeGrid :
       /\ inc > family.primary_income
       /\ calc_ftb_part_a(RATES, WithPrimary(family, inc)).pf < ftb_a.pf
       /\ calc_ftb_part_a(RATES, WithPrimary(family, inc)).pf > 0

\* ------------------------------------------------------------------------
\* C3
\* ------------------------------------------------------------------------
\* Secondary incomes (cents) around the free area and the cut-outs.
SecondarySeq == <<0, 6790, 20000, 33653, 60000>>

SecondaryGrid == {Cents(SecondarySeq[k]) : k \in DOMAIN SecondarySeq}

WithSecondary(fam, inc) == [fam EXCEPT !.secondary_income = inc]

\* calc_ftb_part_b as the program app runs it
PartB(a, r, fam) ==
  IF a = "v4" THEN calc_ftb_part_b_v4(r, fam, TRUE)
  ELSE IF a = "v2" THEN calc_ftb_part_b_v2(r, fam, TRUE)
  ELSE calc_ftb_part_b(r, fam, TRUE)

\* C3: with the children and the partnered flag held fixed, the Benefit B
\* fortnightly rate never increases when the primary income increases or
\* when the secondary income increases, the other held fixed:
\* calc_ftb_part_b of v1..v4 and FTBCalculator.calculate_ftb_part_b (which
\* has the one income).
C3_PartBMonotone ==
  /\ (app \in Dss /\ page = "calc") =>
       LET byPrimary(d) == PartB(app, RATES, WithPrimary(family, Cents(d))).pf
           bySecondary(d) == PartB(app, RATES, WithSecondary(family, Cents(d))).pf
       IN  /\ NonIncreasing(byPrimary, IncomeSeq, family.primary_income \div 100,
                            ftb_b.pf)
           /\ NonIncreasing(bySecondary, SecondarySeq,
                            family.secondary_income \div 100, ftb_b.pf)
  /\ (app = "rates" /\ calculation_results # NONE) =>
       LET res == calculation_results
           rate(inc) == calculate_ftb_part_b(FTBRates, res.children, res.family_type,
                                             inc).fortnightly_rate
       IN  NonIncreasing(rate, RatesIncomeSeq, res.annual_income,
                         res.total_ftb_b_fortnightly)

\* C3 witness: results are shown for a couple with a positive Benefit B
\* rate that is strictly lower at a higher secondary income and zero at a
\* higher primary income.
C3_Witness ==
  /\ app \in {"v1", "v2", "v3"}
  /\ page = "calc"
  /\ family.partnered
  /\ ftb_b.pf > 0
  /\ \E inc \in SecondaryGrid :
       /\ inc > family.secondary_income
       /\ calc_ftb_part_b(RATES, WithSecondary(family, inc), TRUE).pf < ftb_b.pf
       /\ calc_ftb_part_b(RATES, WithSecondary(family, inc), TRUE).pf > 0
  /\ \E inc \in IncomeGrid :
       /\ inc > family.primary_income
       /\ calc_ftb_part_b(RATES, WithPrimary(family, inc), TRUE).pf = 0

\* ------------------------------------------------------------------------
\* C4
\* ------------------------------------------------------------------------
\* C4: for a partnered household whose youngest child is 13 or older the
\* Benefit B fortnightly rate is 0.00 whatever the incomes; for a partnered
\* household whose youngest child is 12 the rate is positive when the
\* primary income is at most the primary-earner ceiling and the secondary
\* income at most the secondary free area.
C4_CoupleAgeLimit ==
  (app \in Dss /\ page = "calc" /\ family.partnered) =>
    /\ min_age(family.children) >= 13 => ftb_b.pf = 0
    /\ (/\ min_age(family.children) = 12
        /\ family.primary_income <= Cents(RATES.ftb_b.primary_limit)
        /\ family.secondary_income <= Cents(RATES.ftb_b.secondary_free_area))
       => ftb_b.pf > 0

\* ------------------------------------------------------------------------
\* C5
\* ------------------------------------------------------------------------
\* Children of the given ages with every compliance flag met.
ChildrenOfAges(ages) == [k \in DOMAIN ages |-> Child(ages[k], TRUE, TRUE, TRUE)]

\* C5: calc_ftb_part_a at a family income equal to the zero_payment that
\* find_ftb_a_cutoff returned for the ages of the income-limits tab (all
\* flags met, not on income support) gives a fortnightly rate of at most
\* one cent, in each program that has find_ftb_a_cutoff.
C5_CutoffRoundTrip ==
  (OnLimitsTab /\ page = "limits") =>
    calc_ftb_part_a(RATES, Family(FALSE, ftb_a_lim.zero_payment, 0,
                                  ChildrenOfAges(widgets.rev_ages), FALSE)).pf <= 1

\* ------------------------------------------------------------------------
\* C6
\* ------------------------------------------------------------------------
\* The least family income (cents) that is at least
\* higher_ifa + base_total_pf * 26 / taper2.
ZeroPoint(r, children) ==
  LET b == Pf(base_total_pf(r, children))
      t == r.ftb_a.taper2
  IN  Cents(r.ftb_a.higher_ifa) + (b + t - 1) \div t

\* Steps above that income (cents).
AboveZeroPoint == {0, 1, 100, 500000, 5000000}

\* C6: a household not on income support with a family income of at least
\* higher_ifa + (Method-2 base total * 26) / taper2 gets a fortnightly rate
\* of 0.00 and no supplement: the household of the state, and the same
\* children at that income and above it, under both rate tables.
C6_ZeroAboveBaseCutout ==
  (app \in Dss /\ page = "calc") =>
    /\ (~family.on_income_support /\ ati(family) >= ZeroPoint(RATES, family.children))
         => (ftb_a.pf = 0 /\ ftb_a.supp = 0)
    /\ \A r \in RateTables, d \in AboveZeroPoint :
         LET fam == Family(family.partnered,
                           ZeroPoint(r, family.children) + d - family.secondary_income,
                           family.secondary_income, family.children, FALSE)
             res == calc_ftb_part_a(r, fam)
         IN  res.pf = 0 /\ res.supp = 0

\* C6 witness: results are shown for a household not on income support with
\* a positive Method-2 base total, whose income is at or above the point, and
\* the rate shown is 0.00; one cent below the point Method 2 still pays.
C6_Witness ==
  /\ app \in Dss
  /\ page = "calc"
  /\ ~family.on_income_support
  /\ base_total_pf(RATES, family.children) > 0
  /\ ati(family) >= ZeroPoint(RATES, family.children)
  /\ ftb_a.pf = 0
  /\ m2_pf(RATES, Family(FALSE, ZeroPoint(RATES, family.children) - 1, 0,
                         family.children, FALSE)) > 0

\* ------------------------------------------------------------------------
\* C7
\* ------------------------------------------------------------------------
\* The sum of f over the members of a sequence.
RECURSIVE SumOver(_, _)
SumOver(f(_), seq) ==
  IF seq = <<>> THEN 0 ELSE f(Head(seq)) + SumOver(f, Tail(seq))

\* Per-child maximum rate after the maintenance cap and after the compliance
\* penalties, and per-child base rate after the penalties (cents), v1..v4.
CappedMaxAfterPenalties(c) ==
  LET max_pf == child_max_rate_pf(RATES, c)
      base_pf == child_base_rate_pf(RATES, c)
      capped == IF c.maintenance_ok THEN max_pf ELSE Min(max_pf, base_pf)
  IN  Max(capped - child_penalties_pf(RATES, c), 0)

BaseAfterPenalties(c) ==
  Max(child_base_rate_pf(RATES, c) - child_penalties_pf(RATES, c), 0)

\* The same for a child of the program "rates", whose compliance reductions
\* are those FTBCalculator computes (unrounded amounts).
RatesMaxRate(c) ==
  Pf(IF c.age < 13 THEN FTBRates.max_rate_under_13 ELSE FTBRates.max_rate_13_over)

RatesBaseRate(c) ==
  Pf(IF c.age < 13 THEN FTBRates.base_rate_under_13 ELSE FTBRates.base_rate_13_over)

RatesReduction(c) ==
  calculate_ftb_part_a(FTBRates, c, 0, TRUE).compliance_reduction

RatesCappedMaxAfterPenalties(c) ==
  LET capped == IF c.maintenance_action THEN RatesMaxRate(c)
                ELSE Min(RatesMaxRate(c), RatesBaseRate(c))
  IN  Max(capped - RatesReduction(c), 0)

RatesBaseAfterPenalties(c) == Max(RatesBaseRate(c) - RatesReduction(c), 0)

\* C7: on income support, or with a family income at or below the lower
\* threshold, the Method 1 rate is the sum over the children of the
\* per-child maximum rate after the maintenance cap and after the compliance
\* penalties, with no income reduction: calc_ftb_part_a (where, under RATES,
\* it is also the rate shown) and FTBCalculator.calculate_ftb_part_a summed
\* over the children.
C7_MaxRateInFull ==
  /\ (/\ app \in Dss
      /\ page = "calc"
      /\ (family.on_income_support \/ ati(family) <= Cents(RATES.ftb_a.lower_ifa)))
     => /\ m1_pf(RATES, family) = Pf(SumOver(CappedMaxAfterPenalties, family.children))
        /\ ftb_a.pf = SumOver(CappedMaxAfterPenalties, family.children)
  /\ (/\ app = "rates"
      /\ calculation_results # NONE
      /\ (\/ calculation_results.income_support
          \/ calculation_results.annual_income <= FTBRates.ftb_a_higher_threshold))
     => calculation_results.total_ftb_a_fortnightly
          = SumOver(RatesCappedMaxAfterPenalties, calculation_results.children)

\* ------------------------------------------------------------------------
\* C8
\* ------------------------------------------------------------------------
\* The number of compliance tests a child fails: immunisation, and the
\* health check, which counts at ages 4 and 5 only.
FailedTests(age, immunised, healthy_start) ==
  Bit(~immunised) + Bit(age \in {4, 5} /\ ~healthy_start)

\* C8: a child loses one flat compliance-penalty amount from its maximum
\* rate and one from its base rate (each floored at zero) for every test it
\* fails, two when it fails both, and the health check counts only at ages 4
\* and 5: child_penalties_pf and the loop of calc_ftb_part_a; the compliance
\* reduction of FTBCalculator.calculate_ftb_part_a.
C8_PenaltyStacking ==
  /\ (app \in Dss /\ page = "calc") =>
       \A k \in DOMAIN family.children :
         LET c == family.children[k]
             n == FailedTests(c.age, c.immunised, c.healthy_start)
             capped == IF c.maintenance_ok THEN child_max_rate_pf(RATES, c)
                       ELSE Min(child_max_rate_pf(RATES, c), child_base_rate_pf(RATES, c))
         IN  /\ child_penalties_pf(RATES, c) = n * RATES.compliance_penalty_pf
             /\ child_max_contribution(RATES, c)
                  = Max(capped - n * RATES.compliance_penalty_pf, 0)
             /\ child_base_contribution(RATES, c)
                  = Max(child_base_rate_pf(RATES, c) - n * RATES.compliance_penalty_pf, 0)
  /\ (app = "rates" /\ calculation_results # NONE) =>
       \A k \in DOMAIN calculation_results.children :
         LET c == calculation_results.children[k]
             res == calculation_results.ftb_a_results[k]
         IN  FailedTests(c.age, c.immunisation, c.healthy_start) = 0
               => res.compliance_reduction = 0

\* ------------------------------------------------------------------------
\* C9
\* ------------------------------------------------------------------------
\* C9: when every child of the household fails the maintenance-action test
\* and the family income is at or below the higher threshold, the rate paid
\* is the total of the children's base rates after penalties, not zero (the
\* maximum rate of such a child is capped at its base rate, the base rate is
\* kept): calc_ftb_part_a and FTBCalculator.calculate_ftb_part_a summed over
\* the children.
C9_MaintenanceCap ==
  /\ (/\ app \in Dss
      /\ page = "calc"
      /\ \A k \in DOMAIN family.children : ~family.children[k].maintenance_ok
      /\ ati(family) <= Cents(RATES.ftb_a.higher_ifa))
     => ftb_a.pf = SumOver(BaseAfterPenalties, family.children)
  /\ (/\ app = "rates"
      /\ calculation_results # NONE
      /\ \A k \in DOMAIN calculation_results.children :
           ~calculation_results.children[k].maintenance_action
      /\ calculation_results.annual_income <= FTBRates.ftb_a_base_threshold)
     => calculation_results.total_ftb_a_fortnightly
          = SumOver(RatesBaseAfterPenalties, calculation_results.children)

\* ------------------------------------------------------------------------
\* C10
\* ------------------------------------------------------------------------
\* C10: the Benefit A supplement is paid if and only if the fortnightly rate
\* is positive and the family is on income support or has a family income
\* at or below the supplement income ceiling; otherwise it is 0:
\* calc_ftb_part_a, calculator_page of the program "rates", and the
\* supplements of web (which knows no income support and no ceiling, so
\* that there the rate must be positive).
C10_SupplementIff ==
  /\ (app \in Dss /\ page = "calc") =>
       LET due == /\ ftb_a.pf > 0
                  /\ (\/ family.on_income_support
                      \/ ati(family) <= Cents(RATES.ftb_a.supplement_income_limit))
       IN  ftb_a.supp = IF due THEN RATES.ftb_a.supplement ELSE 0
  /\ (app = "rates" /\ calculation_results # NONE) =>
       LET res == calculation_results
           due == /\ res.total_ftb_a_fortnightly > 0
                  /\ (\/ res.income_support
                      \/ res.annual_income <= FTBRates.ftb_a_supplement_limit)
       IN  (res.ftb_a_supplement > 0) <=> due
  /\ app = "web" => (web.supplements > 0 => web.ftb_a > 0)

\* ------------------------------------------------------------------------
\* C11
\* ------------------------------------------------------------------------
\* C11: when the Benefit A supplement is paid, its amount is the one flat
\* annual supplement figure of the rate table, the same for one child as for
\* more: calc_ftb_part_a, calculator_page of the program "rates", and the
\* supplements of web.
C11_FlatSupplement ==
  /\ (app \in Dss /\ page = "calc") =>
       ftb_a.supp \in {0, RATES.ftb_a.supplement}
  /\ (app = "rates" /\ calculation_results # NONE) =>
       calculation_results.ftb_a_supplement \in {0, FTBRates.ftb_a_supplement_rate}
  /\ app = "web" => web.supplements \in {0, END_YEAR_SUPPLEMENT}

\* ------------------------------------------------------------------------
\* C12
\* ------------------------------------------------------------------------
\* The full standard Benefit B rate of the youngest child's age band (cents).
StdRateB(r, children) ==
  IF min_age(children) < 5 THEN r.ftb_b.max_pf["under_5"]
  ELSE r.ftb_b.max_pf["5_to_18"]

\* Incomes (whole dollars) of a single parent of the program "rates": at the
\* threshold of its income test, above it, and past its cut-out.
RatesSingleIncomes == {6497, 10000, 28746}

\* C12: for a non-partnered household with at least one child the Benefit B
\* fortnightly rate is the full standard rate of the youngest child's band
\* when the primary income is at or below the primary-earner ceiling and 0
\* above it, whatever the secondary income field holds: calc_ftb_part_b on
\* the household of the state with each secondary income of the grid.
\* FTBCalculator.calculate_ftb_part_b has the one income and no ceiling:
\* there the rate of a single parent is the full standard rate or 0.
C12_SingleParentPartB ==
  /\ (app \in Dss /\ page = "calc" /\ ~family.partnered) =>
       LET due == IF family.primary_income <= Cents(RATES.ftb_b.primary_limit)
                    THEN StdRateB(RATES, family.children) ELSE 0
       IN  /\ ftb_b.pf = due
           /\ \A s \in SecondaryGrid :
                PartB(app, RATES, WithSecondary(family, s)).pf = due
  /\ (/\ app = "rates"
      /\ calculation_results # NONE
      /\ calculation_results.family_type = "single") =>
       LET res == calculation_results
           full == Pf(IF min_age(res.children) < 5 THEN FTBRates.ftb_b_max_under_5
                      ELSE FTBRates.ftb_b_max_5_over)
       IN  /\ res.total_ftb_b_fortnightly \in {0, full}
           /\ \A inc \in RatesSingleIncomes :
                calculate_ftb_part_b(FTBRates, res.children, "single", inc).fortnightly_rate
                  \in {0, full}

\* ------------------------------------------------------------------------
\* C13
\* ------------------------------------------------------------------------
\* The household with the values of the two income fields exchanged.
Swapped(fam) ==
  [fam EXCEPT !.primary_income = fam.secondary_income,
              !.secondary_income = fam.primary_income]

\* C13: for a partnered household the Benefit B result is unchanged when
\* the values of primary_income and secondary_income are swapped; the larger
\* of the two is tested against the primary-earner ceiling (over it the rate
\* is 0) and the smaller against the secondary free area (at or below it, with
\* the larger within the ceiling and a child under 13, the full standard
\* rate is paid): calc_ftb_part_b on the household of the state and on the
\* same household with each secondary income of the grid.
C13_EarnerSwap ==
  (app \in Dss /\ page = "calc" /\ family.partnered) =>
    /\ PartB(app, RATES, Swapped(family)) = ftb_b
    /\ \A s \in SecondaryGrid :
         LET fam == WithSecondary(family, s)
             res == PartB(app, RATES, fam)
             larger == Max(fam.primary_income, fam.secondary_income)
             smaller == Min(fam.primary_income, fam.secondary_income)
         IN  /\ PartB(app, RATES, Swapped(fam)) = res
             /\ larger > Cents(RATES.ftb_b.primary_limit) => res.pf = 0
             /\ (/\ larger <= Cents(RATES.ftb_b.primary_limit)
                 /\ smaller <= Cents(RATES.ftb_b.secondary_free_area)
                 /\ min_age(fam.children) < 13)
                => res.pf = StdRateB(RATES, fam.children)

\* ------------------------------------------------------------------------
\* C14
\* ------------------------------------------------------------------------
\* calc_ftb_part_a as the program app runs it
PartA(a, r, fam) ==
  IF a = "v2" THEN calc_ftb_part_a_v2(r, fam) ELSE calc_ftb_part_a(r, fam)

\* An annual amount of the program app is zero (v2 keeps it unrounded).
AnnualIsZero(a, x) == IF a = "v2" THEN x.w = 0 /\ x.f = 0 ELSE x = 0

\* Whole-dollar incomes that leave a rate below half a cent under RATES:
\* a family income at which the base rate of one child aged 4 that is not
\* immunised, 71.26 - 34.44, less (119188 - 115997) * 0.30 / 26 is 0.0008;
\* a secondary income at which the standard rate 131.74 less
\* (23915 - 6789) * 0.20 / 26 is 0.0015.
NearZeroFamilyIncome == 119188

NearZeroSecondaryIncome == 23915

\* C14: in every Benefit A and Benefit B result whose reported fortnightly
\* rate pf is 0.00, the annual core, the supplement, the energy supplement
\* and the annual total are all 0: the results shown, and the engines on the
\* household of the state with a family income or a secondary income that
\* leaves a rate below one cent.
C14_ZeroRateZeroResult ==
  (app \in Dss /\ page = "calc") =>
    LET zeroA(res) == res.pf = 0 =>
                        /\ AnnualIsZero(app, res.annual)
                        /\ res.supp = 0
                        /\ res.annual_total = 0
        zeroB(res) == res.pf = 0 =>
                        /\ AnnualIsZero(app, res.annual)
                        /\ res.supp = 0
                        /\ AnnualIsZero(app, res.energy)
                        /\ res.annual_total = 0
    IN  /\ zeroA(ftb_a)
        /\ zeroB(ftb_b)
        /\ zeroA(PartA(app, RATES,
                       WithPrimary(family, Cents(NearZeroFamilyIncome)
                                             - family.secondary_income)))
        /\ zeroB(PartB(app, RATES,
                       WithSecondary(family, Cents(NearZeroSecondaryIncome))))

\* ------------------------------------------------------------------------
\* C15
\* ------------------------------------------------------------------------
\* The outcome of a call that raises: the type of the exception.
Raises(exc) == [raises |-> exc]

\* A call of calc_ftb_part_a on a Family with no children.  children_given
\* tells whether the Family was built with a list (then fam.children is that
\* list) or without (then it is the default None, and the loop
\* "for ch in fam.children" of app.py:895 raises TypeError).
calc_ftb_part_a_call(a, r, fam, children_given) ==
  IF ~children_given THEN Raises("TypeError") ELSE PartA(a, r, fam)

\* The same call of calc_ftb_part_b: "if not fam.children" (app.py:925) is
\* true of None as of the empty list.
calc_ftb_part_b_call(a, r, fam, children_given) ==
  IF ~children_given THEN ZeroB ELSE PartB(a, r, fam)

\* A call of FTBCalculator.calculate_ftb_part_b: for a family that is not a
\* couple min() of no ages (app.py:128) raises ValueError.
calculate_ftb_part_b_call(rates, children, family_type, annual_income) ==
  IF family_type # "couple" /\ children = <<>> THEN Raises("ValueError")
  ELSE calculate_ftb_part_b(rates, children, family_type, annual_income)

\* C15: for a household with no children (the empty list, or the Family
\* default when no children are supplied) calc_ftb_part_a and
\* calc_ftb_part_b each return fortnightly rate 0, supplement 0 and annual
\* total 0 and neither raises an error; FTBCalculator.calculate_ftb_part_b
\* on no children returns rate 0 and raises no error.  The household is
\* that of the form, without its children.
C15_NoChildren ==
  /\ OnCalcTab =>
       LET fam == Family(widgets.partnered, Cents(widgets.primary_income),
                         Cents(widgets.secondary_income), <<>>,
                         widgets.on_income_support)
           zero(res) == /\ "raises" \notin DOMAIN res
                        /\ res.pf = 0
                        /\ res.supp = 0
                        /\ res.annual_total = 0
       IN  \A children_given \in BOOLEAN :
             /\ zero(calc_ftb_part_b_call(app, RATES, fam, children_given))
             /\ zero(calc_ftb_part_a_call(app, RATES, fam, children_given))
  /\ (app = "rates" /\ calculation_results # NONE) =>
       LET res == calculate_ftb_part_b_call(FTBRates, <<>>,
                                            calculation_results.family_type,
                                            calculation_results.annual_income)
       IN  "raises" \notin DOMAIN res /\ res.fortnightly_rate = 0

\* ------------------------------------------------------------------------
\* C16
\* ------------------------------------------------------------------------
\* A single parent with primary income 50,000, one child aged 5 with every
\* compliance flag met, not on income support.
Scenario16 == Family(FALSE, Cents(50000), 0, <<Child(5, TRUE, TRUE, TRUE)>>, FALSE)

\* C16: under the 2024-25 RATES that household gets from calc_ftb_part_a
\* Method 1 = 222.04, Method 2 = 71.26, pf = 222.04 and supp = 916.15, and,
\* in the programs whose pf_to_annual is round(pf * 26, 2), annual core
\* 5773.04 and annual_total = 6689.19.
C16_Scenario ==
  (app \in Dss /\ page = "calc" /\ family = Scenario16) =>
    /\ round2(m1_pf(RATES, family)) = 22204
    /\ round2(m2_pf(RATES, family)) = 7126
    /\ ftb_a.pf = 22204
    /\ ftb_a.supp = 91615
    /\ app # "v2" => (ftb_a.annual = 577304 /\ ftb_a.annual_total = 668919)

\* C16 witness: the results of that household are shown, with the annual
\* total of the scenario.
C16_Witness ==
  /\ app = "v1"
  /\ page = "calc"
  /\ family = Scenario16
  /\ ftb_a = [pf |-> 22204, annual |-> 577304, supp |-> 91615,
              annual_total |-> 668919]

\* ------------------------------------------------------------------------
\* C17
\* ------------------------------------------------------------------------
\* A couple with incomes 130,000 and 0 and one child aged 8.
Scenario17 == Family(TRUE, Cents(130000), 0, <<Child(8, TRUE, TRUE, TRUE)>>, FALSE)

\* max(0, base total - (income - higher threshold) * taper2 / 26), unrounded.
BaseTierFormula(r, fam) ==
  Max(0, Pf(base_total_pf(r, fam.children))
           - (ati(fam) - Cents(r.ftb_a.higher_ifa)) * r.ftb_a.taper2)

\* C17: for every household not on income support whose family income is
\* above the higher threshold the Method 1 result equals the Method 2
\* result, both being max(0, base total - (income - higher threshold) *
\* taper2 / 26): the household of the state, and the same household not on
\* income support at each primary income of the grid, under both rate
\* tables.  The couple with incomes 130,000 and 0 and one child aged 8 gets
\* supplement 0.
C17_MethodsAgreeAboveHigher ==
  (app \in Dss /\ page = "calc") =>
    /\ (/\ ~family.on_income_support
        /\ ati(family) > Cents(RATES.ftb_a.higher_ifa))
       => /\ m1_pf(RATES, family) = m2_pf(RATES, family)
          /\ m1_pf(RATES, family) = BaseTierFormula(RATES, family)
          /\ ftb_a.pf = round2(BaseTierFormula(RATES, family))
    /\ \A r \in RateTables, k \in DOMAIN IncomeSeq :
         LET fam == [family EXCEPT !.on_income_support = FALSE,
                                   !.primary_income = Cents(IncomeSeq[k])]
         IN  ati(fam) > Cents(r.ftb_a.higher_ifa) =>
               /\ m1_pf(r, fam) = m2_pf(r, fam)
               /\ m1_pf(r, fam) = BaseTierFormula(r, fam)
    /\ family = Scenario17 => ftb_a.supp = 0

\* C17 witness: results are shown for a household not on income support
\* whose family income is above the higher threshold and whose two methods
\* give the same positive rate.
C17_Witness ==
  /\ app \in Dss
  /\ page = "calc"
  /\ ~family.on_income_support
  /\ ati(family) > Cents(RATES.ftb_a.higher_ifa)
  /\ m1_pf(RATES, family) > 0
  /\ m1_pf(RATES, family) = m2_pf(RATES, family)
  /\ ftb_a.pf = round2(m2_pf(RATES, family))
  /\ ftb_a.supp = 0

\* ------------------------------------------------------------------------
\* C18
\* ------------------------------------------------------------------------
\* An annual amount of the program app as whole cents and the fraction of a
\* cent above them (AnnDen-ths; v2 alone reports unrounded amounts).
AnnualParts(a, x) == IF a = "v2" THEN x ELSE [w |-> x, f |-> 0]

\* C18: in every Benefit A and Benefit B result the annual core amount is
\* the reported fortnightly rate pf times 26, to the cent, and annual_total
\* is annual core + supplement (+ energy supplement for Benefit B), rounded
\* to 2 decimal places: the results shown by each program.
C18_Annualisation ==
  (app \in Dss /\ page = "calc") =>
    LET a_core == AnnualParts(app, ftb_a.annual)
        b_core == AnnualParts(app, ftb_b.annual)
        b_energy == AnnualParts(app, ftb_b.energy)
    IN  /\ a_core = [w |-> ftb_a.pf * 26, f |-> 0]
        /\ b_core = [w |-> ftb_b.pf * 26, f |-> 0]
        /\ ftb_a.annual_total = round_annual(a_core.w + ftb_a.supp, a_core.f)
        /\ ftb_b.annual_total =
             round_annual(b_core.w + ftb_b.supp + b_energy.w
                            + (b_core.f + b_energy.f) \div AnnDen,
                          (b_core.f + b_energy.f) % AnnDen)

\* ------------------------------------------------------------------------
\* C19
\* ------------------------------------------------------------------------
\* The lists that hold the members of seq in another order (seq included).
Reorderings(seq) ==
  {[i \in DOMAIN seq |-> seq[p[i]]] : p \in Permutations(DOMAIN seq)}

\* C19: the order of the children is irrelevant: for every permutation of
\* the list of children calc_ftb_part_a and calc_ftb_part_b return the
\* results shown, find_ftb_a_cutoff and find_ftb_b_cutoff the thresholds
\* shown, and FTBCalculator.calculate_work_incentive the work incentive
\* stored.
C19_ChildOrderIrrelevant ==
  /\ (app \in Dss /\ page = "calc") =>
       \A children \in Reorderings(family.children) :
         LET fam == [family EXCEPT !.children = children]
         IN  PartA(app, RATES, fam) = ftb_a /\ PartB(app, RATES, fam) = ftb_b
  /\ (OnLimitsTab /\ page = "limits") =>
       \A ages \in Reorderings(widgets.rev_ages) :
         /\ ftb_a_lim = CASE app = "v1" -> find_ftb_a_cutoff_v1(RATES, ages)
                          [] app = "v2" -> find_ftb_a_cutoff_v2(RATES, ages)
                          [] app = "v3" -> find_ftb_a_cutoff_v3(RATES, ages)
         /\ ftb_b_lim = IF app = "v3" THEN find_ftb_b_cutoff_v3(RATES, ages)
                        ELSE find_ftb_b_cutoff(RATES, ages)
  /\ (app = "rates" /\ calculation_results # NONE) =>
       LET res == calculation_results
       IN  \A children \in Reorderings(res.children) :
             calculate_work_incentive(FTBRates, children, res.family_type,
                                      res.annual_income) = res.work_incentive

\* ------------------------------------------------------------------------
\* C20
\* ------------------------------------------------------------------------
\* find_ftb_a_cutoff and find_ftb_b_cutoff as the program a runs them
Cutoffs(a, r, ages) ==
  [a |-> CASE a = "v1" -> find_ftb_a_cutoff_v1(r, ages)
           [] a = "v2" -> find_ftb_a_cutoff_v2(r, ages)
           [] a = "v3" -> find_ftb_a_cutoff_v3(r, ages),
   b |-> IF a = "v3" THEN find_ftb_b_cutoff_v3(r, ages)
         ELSE find_ftb_b_cutoff(r, ages)]

construct_Child(age, immunised, healthy_start, maintenance_ok) ==
  Child(age, immunised, healthy_start, maintenance_ok)

construct_Family(partnered, primary_income, secondary_income, children, on_income_support) ==
  Family(partnered, primary_income, secondary_income, children, on_income_support)

\* Incomes (cents) and ages that are not valid.
InvalidIncomes == {-1, -Cents(1000)}

InvalidAges == {-1, 20}

\* C21: invalid input is rejected before any engine function runs:
\* constructing a Family with a negative primary or secondary income, or a
\* Child with an age outside 0..19, fails with a validation error.  The
\* other fields are those of the form.
C21_InvalidInputRejected ==
  OnCalcTab =>
    /\ \A inc \in InvalidIncomes :
         /\ "raises" \in DOMAIN construct_Family(widgets.partnered, inc,
                                                 Cents(widgets.secondary_income),
                                                 widgets.children,
                                                 widgets.on_income_support)
         /\ "raises" \in DOMAIN construct_Family(widgets.partnered,
                                                 Cents(widgets.primary_income), inc,
                                                 widgets.children,
                                                 widgets.on_income_support)
    /\ \A age \in InvalidAges :
         "raises" \in DOMAIN construct_Child(age, TRUE, TRUE, TRUE)

\* ------------------------------------------------------------------------
\* C22
\* ------------------------------------------------------------------------
\* The zero-reason a Benefit B result carries: the value of its field
\* "reason", and the empty string when the result has no such field.
ReasonOf(res) == IF "reason" \in DOMAIN res THEN res.reason ELSE ""

\* C22: every Benefit B result whose fortnightly rate is 0 for a household
\* with at least one child carries a non-empty reason, and a result with a
\* positive rate carries none: the dict of calc_ftb_part_b and the FTBResult
\* of FTBCalculator.calculate_ftb_part_b.
C22_ZeroReason ==
  /\ (app \in Dss /\ page = "calc") =>
       /\ ftb_b.pf = 0 => ReasonOf(ftb_b) # ""
       /\ ftb_b.pf > 0 => ReasonOf(ftb_b) = ""
  /\ (app = "rates" /\ calculation_results # NONE) =>
       LET res == calculation_results.ftb_b_result
       IN  /\ res.fortnightly_rate = 0 => ReasonOf(res) # ""
           /\ res.fortnightly_rate > 0 => ReasonOf(res) = ""

\* ------------------------------------------------------------------------
\* C23
\* ------------------------------------------------------------------------
\* The secondary cut-offs the program a reports for the two age bands the
\* nil_secondary table has: youngest child under 5, youngest child 5 to 12.
BandCutoffs(a, r) ==
  {Cutoffs(a, r, <<4>>).b.secondary_cutoff, Cutoffs(a, r, <<5>>).b.secondary_cutoff}

\* C23: for a composition the nil_secondary lookup does not cover (no ages,
\* or a youngest child aged 13 or more) find_ftb_b_cutoff returns a
\* not-available value for secondary_cutoff, which is no amount and so
\* never the amount of another age band: the thresholds shown for the ages
\* of the income-limits tab, and the lookup function on the empty list.
C23_CutoffNotAvailable ==
  /\ (OnLimitsTab /\ page = "limits" /\ min_of(widgets.rev_ages) >= 13) =>
       ftb_b_lim.secondary_cutoff \notin BandCutoffs(app, rate_table)
  /\ (OnLimitsTab /\ app \in {"v1", "v2"}) =>
       find_ftb_b_cutoff(rate_table, <<>>).secondary_cutoff
         \notin BandCutoffs(app, rate_table)

\* ------------------------------------------------------------------------
\* C24
\* ------------------------------------------------------------------------
\* C24: in the program "rates", after any sequence of Calculate presses and
\* edits on the Rates & Thresholds page, the results results_page reads from
\* st.session_state.calculation_results are those the calculation gives for
\* the stored inputs under the rates now in st.session_state.rates.
C24_ResultsFollowRates ==
  (app = "rates" /\ calculation_results # NONE) =>
    calculation_results =
      calculation_results_of(rate_table, calculation_results.family_type,
                             calculation_results.annual_income,
                             calculation_results.income_support,
                             calculation_results.children)

\* ------------------------------------------------------------------------
\* C25
\* ------------------------------------------------------------------------
\* Every age band's maximum rate of the table is at least its base rate.
BandsOrdered(r) ==
  /\ r.ftb_a.max_pf["0_12"] >= r.ftb_a.base_pf["0_12"]
  /\ r.ftb_a.max_pf["13_15"] >= r.ftb_a.base_pf["13_plus"]
  /\ r.ftb_a.max_pf["16_19"] >= r.ftb_a.base_pf["13_plus"]

\* C25: in calc_ftb_part_a Method 2's total base_total_pf equals Method 1's
\* floor total_base_pf; under a table whose band maxima are at least the
\* base rates Method 1 is at least Method 2 for the household at every
\* income, and on income support (where the income is not read), so the
\* rate returned is the Method 1 result and Method 2 never strictly wins.
C25_Method2NeverWins ==
  (app \in Dss /\ page = "calc") =>
    /\ ftb_a.pf = round2(m1_pf(RATES, family))
    /\ \A r \in RateTables :
         /\ base_total_pf(r, family.children) = total_base_pf(r, family.children)
         /\ BandsOrdered(r) =>
              \A f \in {[WithPrimary(family, inc) EXCEPT !.on_income_support = FALSE] :
                           inc \in IncomeGrid}
                        \cup {[family EXCEPT !.on_income_support = TRUE]} :
                LET m1 == m1_pf(r, f)
                IN  /\ m1 >= m2_pf(r, f)
                    /\ calc_ftb_part_a(r, f).pf = round2(m1)

\* A household with a penalised child between the two thresholds: Method 1
\* is strictly above Method 2 under RATES, and under the table whose
\* 0-12 maximum is below the base rate Method 2 is strictly above Method 1.
C25_Witness ==
  /\ app \in Dss
  /\ page = "calc"
  /\ ~family.on_income_support
  /\ \E i \in DOMAIN family.children : child_penalties_pf(RATES, family.children[i]) > 0
  /\ ati(family) > Cents(RATES.ftb_a.lower_ifa)
  /\ ati(family) <= Cents(RATES.ftb_a.higher_ifa)
  /\ BandsOrdered(RATES)
  /\ m1_pf(RATES, family) > m2_pf(RATES, family)
  /\ m2_pf(RATES, family) = Pf(total_base_pf(RATES, family.children))
  /\ ftb_a.pf = round2(m1_pf(RATES, family))
  /\ ~BandsOrdered(AltRates)
  /\ m2_pf(AltRates, WithPrimary(family, 0)) > m1_pf(AltRates, WithPrimary(family, 0))

\* ------------------------------------------------------------------------
\* C26
\* ------------------------------------------------------------------------
\* Whole-dollar family incomes whose successor is one dollar higher: below,
\* across and above the two thresholds of RATES and of the web constants.
StepIncomes == {65188, 65189, 90000, 115996, 115997, 115998, 122173}

\* The household of the state with the family income x (whole dollars) on
\* the primary earner, not on income support.
AtIncome(fam, x) ==
  [fam EXCEPT !.primary_income = Cents(x), !.secondary_income = 0,
              !.on_income_support = FALSE]

\* C26: one more dollar of family income lowers the unrounded fortnightly
\* rate of calc_ftb_part_a by at most max(taper1, taper2) / 26 dollars for a
\* household not on income support, in particular across the higher
\* threshold; the web calc_ftb_part_a likewise (its amounts are annual, so
\* the bound is max(taper1, taper2) dollars per dollar).
C26_NoCliff ==
  /\ (app \in Dss /\ page = "calc") =>
       \A x \in StepIncomes :
         best_pf(rate_table, AtIncome(family, x))
           - best_pf(rate_table, AtIncome(family, x + 1))
         <= Max(rate_table.ftb_a.taper1, rate_table.ftb_a.taper2) * 100
  /\ app = "web" =>
       \A x \in StepIncomes :
         web_calc_ftb_part_a(x, Len(web.child_ages))
           - web_calc_ftb_part_a(x + 1, Len(web.child_ages))
         <= Max(FTB_A_TAPER_RATE1, FTB_A_TAPER_RATE2)

\* ------------------------------------------------------------------------
\* C27
\* ------------------------------------------------------------------------
\* Whole dollars below the greatest whole-dollar income that is at least one
\* dollar below zero_payment.
BelowCutoffSteps == {0, 1, 10, 1000}

\* The greatest whole-dollar income (cents) at least one dollar below x.
DollarBelow(x) == ((x - 100) \div 100) * 100

\* C27: zero_payment of find_ftb_a_cutoff is tight in the 365/14 variant
\* (v2) and in the closed-form variant (v3): for the ages of the
\* income-limits tab, all flags met and not on income support,
\* calc_ftb_part_a returns a positive fortnightly rate at whole-dollar
\* incomes one dollar or more below zero_payment.
C27_ZeroPaymentTight ==
  (OnLimitsTab /\ page = "limits" /\ app \in {"v2", "v3"}) =>
    \A k \in BelowCutoffSteps :
      PartA(app, rate_table,
            Family(FALSE, DollarBelow(ftb_a_lim.zero_payment) - Cents(k), 0,
                   ChildrenOfAges(widgets.rev_ages), FALSE)).pf > 0

\* ------------------------------------------------------------------------
\* C28
\* ------------------------------------------------------------------------
\* Whole-dollar secondary incomes around the free area, the nil_secondary
\* figures and the incomes at which the tapered rate reaches 0.
CutoffSecondaryIncomes == {0, 6790, 20000, 23915, 25000, 26207, 32000, 33653, 60000}

\* C28: secondary_cutoff of find_ftb_b_cutoff agrees with calc_ftb_part_b:
\* for the ages of the income-limits tab and a primary income at or below
\* primary_limit, calc_ftb_part_b returns a positive rate for a secondary
\* income below secondary_cutoff and a rate of 0 at or above it.
C28_SecondaryCutoffAgrees ==
  (OnLimitsTab /\ page = "limits") =>
    \A p \in {0, ftb_b_lim.primary_limit} :
      \A s \in CutoffSecondaryIncomes :
        LET pf == PartB(app, rate_table,
                        Family(TRUE, p, Cents(s), ChildrenOfAges(widgets.rev_ages),
                               FALSE)).pf
        IN  IF Cents(s) < ftb_b_lim.secondary_cutoff THEN pf > 0 ELSE pf = 0

\* ------------------------------------------------------------------------
\* C29
\* ------------------------------------------------------------------------
\* The children with every flag met.
AllFlagsMet(children) ==
  [k \in DOMAIN children |-> RatesChild(children[k].age, TRUE, TRUE, TRUE)]

\* C29: ftb_a_cutout of FTBCalculator.calculate_work_incentive is consistent
\* with calculate_ftb_part_a: for the children of the stored calculation
\* with every flag met, not on income support, every child's Part A rate is
\* 0 at the least whole-dollar income that is at least ftb_a_cutout, and
\* some child's rate is positive at the greatest whole-dollar income below
\* it; and additional_annual_income is max(0, earliest_cutout -
\* current_income) with earliest_cutout the smallest positive cut-out.
C29_WorkIncentiveCutout ==
  (app = "rates" /\ calculation_results # NONE) =>
    LET res == calculation_results
        kids == AllFlagsMet(res.children)
        wi == calculate_work_incentive(rate_table, kids, res.family_type,
                                       res.annual_income)
        at_cutout == (wi.ftb_a_cutout + wi.den - 1) \div wi.den
        below == (wi.ftb_a_cutout - 1) \div wi.den
        cutouts == {x \in {wi.ftb_a_cutout, wi.ftb_b_cutout} : x > 0}
    IN  /\ \A k \in DOMAIN kids :
             calculate_ftb_part_a(rate_table, kids[k], at_cutout, FALSE).fortnightly_rate = 0
        /\ \E k \in DOMAIN kids :
             calculate_ftb_part_a(rate_table, kids[k], below, FALSE).fortnightly_rate > 0
        /\ \A x \in cutouts : wi.earliest_cutout <= x
        /\ wi.earliest_cutout \in cutouts
        /\ wi.additional_annual_income
             = Max(0, wi.earliest_cutout - res.annual_income * wi.den)

\* ------------------------------------------------------------------------
\* C30
\* ------------------------------------------------------------------------
\* The sum of the children's age-band maximum rates (cents).
RECURSIVE SumOfBandMaxima(_, _)
SumOfBandMaxima(r, children) ==
  IF children = <<>> THEN 0
  ELSE child_max_rate_pf(r, Head(children)) + SumOfBandMaxima(r, Tail(children))

\* C30: for a Family with at least one child and non-negative incomes the pf
\* of calc_ftb_part_a lies between 0 and the sum of the children's age-band
\* maximum rates and the pf of calc_ftb_part_b between 0 and the standard
\* rate of the youngest child's band: for the household of the state, for
\* the same household at the primary incomes of the grid, and for Benefit B
\* at the secondary incomes of the grid; the session never shows
\* "Calculation error detected".
C30_RatesWithinBounds ==
  /\ page # "calc_error"
  /\ (app \in Dss /\ page = "calc") =>
       /\ 0 <= ftb_a.pf
       /\ ftb_a.pf <= SumOfBandMaxima(rate_table, family.children)
       /\ 0 <= ftb_b.pf
       /\ ftb_b.pf <= StdRateB(rate_table, family.children)
       /\ \A inc \in IncomeGrid :
            LET a == PartA(app, rate_table, WithPrimary(family, inc)).pf
                b == PartB(app, rate_table, WithPrimary(family, inc)).pf
            IN  /\ 0 <= a /\ a <= SumOfBandMaxima(rate_table, family.children)
                /\ 0 <= b /\ b <= StdRateB(rate_table, family.children)
       /\ \A inc \in SecondaryGrid :
            LET b == PartB(app, rate_table, WithSecondary(family, inc)).pf
            IN  0 <= b /\ b <= StdRateB(rate_table, family.children)

\* Results are shown for a household on income support whose Benefit A rate
\* is the sum of the band maxima, and whose secondary income takes the
\* tapered standard rate below 0, where the floor returns 0.
C30_Witness ==
  /\ app \in {"v1", "v2", "v3"}
  /\ page = "calc"
  /\ family.on_income_support
  /\ ftb_a.pf = SumOfBandMaxima(rate_table, family.children)
  /\ ftb_a.pf > 0
  /\ family.primary_income <= Cents(rate_table.ftb_b.primary_limit)
  /\ Pf(StdRateB(rate_table, family.children))
       - (family.secondary_income - Cents(rate_table.ftb_b.secondary_free_area))
           * rate_table.ftb_b.taper < 0
  /\ ftb_b.pf = 0
  /\ \E inc \in SecondaryGrid :
       PartB(app, rate_table, WithSecondary(family, inc)).pf
         = StdRateB(rate_table, family.children)

====
